---- MODULE Spec2Model ----
(***************************************************************************)
(* Model of the crate apply_method (src/lib.rs): the blanket impl           *)
(*   impl<T> Applicable for T { apply, apply_with_param, apply_with_params } *)
(* executed statement by statement, together with the caller side of the   *)
(* crate's tests (build a value, call, compare with the manually built      *)
(* one).  Values are sequences of segments (a PathBuf / Vec), mutations     *)
(* are caller-supplied callables that may return something, or panic.       *)
(***************************************************************************)
EXTENDS Integers, Sequences, FiniteSets, TLC

\* ------------------------------------------------------------------ bounds
MaxParams == 2      \* longest parameter vector handed to apply_with_params
MaxInit == 1        \* longest value a test starts from

\* ------------------------------------------------------- values and slots
Bad == "x"                          \* the parameter the fallible mutations reject
Params == {"a", "b", Bad}           \* the parameter type P
Root == "r"                         \* segment of a starting value (CARGO_MANIFEST_DIR)
Mark == "!"                         \* what strict_push leaves behind before it panics

SeqsUpTo(S, n) == UNION {[1..k -> S] : k \in 0..n}

InitVals == SeqsUpTo({Root}, MaxInit)
ParamVecs == SeqsUpTo(Params, MaxParams)

\* A place that owns a value, or has been moved out of.
Some(v) == [live |-> TRUE, val |-> v]
Moved == [live |-> FALSE, val |-> <<>>]

\* What a callable hands back (the type R), and the panic payload.
Unit == [tag |-> "unit", val |-> <<>>]
Something(v) == [tag |-> "some", val |-> v]
ErrR == [tag |-> "err", val |-> <<>>]
NoRes == [tag |-> "none", val |-> <<>>]
NoPanic == "none"

\* --------------------------------------------- the caller-supplied callables
Kinds == {"push", "push_old", "try_push", "strict_push", "boom"}

\* One invocation f(&mut v, p): the value it leaves, what it returns, and the
\* payload it panics with (NoPanic when it returns).
\*   push        PathBuf::push: appends, returns ()
\*   push_old    like HashMap::insert: same effect, returns the former contents
\*   try_push    appends unless p is Bad, then returns an Err and changes nothing
\*   strict_push appends; on Bad it leaves a mark behind and panics
\*   boom        panics whenever it is invoked
Mut(kind, v, p) ==
  CASE kind = "push"     -> [val |-> Append(v, p), res |-> Unit, panic |-> NoPanic]
    [] kind = "push_old" -> [val |-> Append(v, p), res |-> Something(v), panic |-> NoPanic]
    [] kind = "try_push" ->
         IF p = Bad THEN [val |-> v, res |-> ErrR, panic |-> NoPanic]
         ELSE [val |-> Append(v, p), res |-> Unit, panic |-> NoPanic]
    [] kind = "strict_push" ->
         IF p = Bad THEN [val |-> Append(v, Mark), res |-> NoRes, panic |-> "rejected"]
         ELSE [val |-> Append(v, p), res |-> Unit, panic |-> NoPanic]
    [] OTHER -> [val |-> v, res |-> NoRes, panic |-> "boom"]

\* A closure |it| f(it, p) captures p; a function item (PathBuf::push) captures nothing.
Closure(kind, p) == [kind |-> kind, cap |-> <<p>>]
FnItem(kind) == [kind |-> kind, cap |-> <<>>]

\* ------------------------------------------------------------- the tests
Ops == {"apply", "apply_with_param", "apply_with_params"}

\* The call a test makes: on a freshly built value ("v0") or chained on the
\* previous call's result ("prev").
CallOf(op, kind, ps, from) ==
  [op |-> op,
   f |-> IF op = "apply" THEN Closure(kind, ps[1]) ELSE FnItem(kind),
   ps |-> IF op = "apply" THEN <<>> ELSE ps,
   from |-> from]

RECURSIVE ChainOf(_, _, _)
ChainOf(kind, ps, from) ==
  IF ps = <<>> THEN <<>>
  ELSE <<CallOf("apply_with_param", kind, <<Head(ps)>>, from)>>
         \o ChainOf(kind, Tail(ps), "prev")

Tests ==
  {[name |-> "single", op |-> op, v |-> v, f |-> k, g |-> k, ps |-> ps] :
      op \in Ops, v \in InitVals, k \in Kinds, ps \in ParamVecs}
  \cup {[name |-> "twice", op |-> "apply", v |-> v, f |-> k, g |-> g, ps |-> ps] :
      v \in InitVals, k \in Kinds, g \in Kinds, ps \in ParamVecs}
  \cup {[name |-> "param_vs_apply", op |-> "apply_with_param", v |-> v, f |-> k, g |-> k, ps |-> ps] :
      v \in InitVals, k \in Kinds, ps \in ParamVecs}
  \cup {[name |-> "params_vs_chain", op |-> "apply_with_params", v |-> v, f |-> k, g |-> k, ps |-> ps] :
      v \in InitVals, k \in Kinds, ps \in ParamVecs}
  \cup {[name |-> "ret_discard", op |-> op, v |-> v, f |-> "push", g |-> "push_old", ps |-> ps] :
      op \in Ops, v \in InitVals, ps \in ParamVecs}

\* apply and apply_with_param take exactly one parameter; a chain of two applies two.
WellFormed(t) ==
  CASE t.name = "twice" -> Len(t.ps) = 2
    [] t.name = "param_vs_apply" -> Len(t.ps) = 1
    [] t.name = "params_vs_chain" -> TRUE
    [] OTHER -> t.op = "apply_with_params" \/ Len(t.ps) = 1

Script(t) ==
  CASE t.name = "single" -> <<CallOf(t.op, t.f, t.ps, "v0")>>
    [] t.name = "twice" ->
         <<CallOf("apply", t.f, <<t.ps[1]>>, "v0"), CallOf("apply", t.g, <<t.ps[2]>>, "prev"),
           CallOf("apply", t.g, <<t.ps[2]>>, "v0"), CallOf("apply", t.f, <<t.ps[1]>>, "prev")>>
    [] t.name = "param_vs_apply" ->
         <<CallOf("apply_with_param", t.f, t.ps, "v0"), CallOf("apply", t.f, t.ps, "v0")>>
    [] t.name = "params_vs_chain" ->
         <<CallOf("apply_with_params", t.f, t.ps, "v0")>> \o ChainOf(t.f, t.ps, "v0")
    [] OTHER ->
         <<CallOf(t.op, t.f, t.ps, "v0"), CallOf(t.op, t.g, t.ps, "v0")>>

\* A panic ends the chained expression it happens in: the calls chained on its
\* result are never made.
RECURSIVE SkipChained(_)
SkipChained(s) ==
  IF s # <<>> /\ Head(s).from = "prev" THEN SkipChained(Tail(s)) ELSE s

\* ------------------------------------------------------------------ state
VARIABLES
  test,       \* the test under way
  script,     \* its calls still to make; Head(script) is the call in progress
  hist,       \* the calls it has completed, with what the caller saw
  pc,         \* position: of the caller, or inside the combinator
  arg,        \* caller's slot: the value about to be passed as self
  self,       \* the combinator's parameter self
  receiver,   \* the combinator's local receiver
  ret,        \* caller's slot: the returned value
  f,          \* the combinator's parameter f
  p,          \* the combinator's parameter p (one P as <<p>>, or the Vec<P>)
  iter,       \* the for loop's iterator over p
  param,      \* the parameter of the invocation in flight
  borrowed,   \* whether a &mut receiver is outstanding
  calls,      \* the invocations of f made by the call in progress
  panic,      \* payload of the panic unwinding through the call
  input       \* the value the call in progress was given

vars == <<test, script, hist, pc, arg, self, receiver, ret, f, p, iter, param,
          borrowed, calls, panic, input>>

NoTest == [name |-> "none", op |-> "apply", v |-> <<>>, f |-> "push", g |-> "push", ps |-> <<>>]

Init ==
  /\ test = NoTest
  /\ script = <<>>
  /\ hist = <<>>
  /\ pc = "idle"
  /\ arg = Moved /\ self = Moved /\ receiver = Moved /\ ret = Moved
  /\ f = FnItem("push") /\ p = <<>> /\ iter = <<>> /\ param = <<>>
  /\ borrowed = FALSE
  /\ calls = <<>>
  /\ panic = NoPanic
  /\ input = <<>>

cur == Head(script)
InOp(o) == script # <<>> /\ cur.op = o

frame == <<self, receiver, f, p, iter, param, borrowed, calls, panic, input>>
caller == <<test, script, hist, arg, ret>>

\* ------------------------------------------------------- the caller's side
\* A test begins: it builds its starting value (PathBuf::from(..)).
PickTest ==
  /\ pc \in {"idle", "done"}
  /\ \E t \in Tests :
       /\ WellFormed(t)
       /\ test' = t
       /\ script' = Script(t)
       /\ arg' = Some(t.v)
  /\ hist' = <<>>
  /\ pc' = "ready"
  /\ ret' = Moved
  /\ UNCHANGED frame

\* value.apply(f) / value.apply_with_param(f, p) / value.apply_with_params(f, p):
\* the call moves the value into self and the callable and parameters into f, p.
Enter(o) ==
  /\ pc = "ready"
  /\ InOp(o)
  /\ self' = arg
  /\ arg' = Moved
  /\ input' = arg.val
  /\ f' = cur.f
  /\ p' = cur.ps
  /\ pc' = "entry"
  /\ UNCHANGED <<test, script, hist, ret, receiver, iter, param, borrowed, calls, panic>>

CallApply == Enter("apply")
CallApplyWithParam == Enter("apply_with_param")
CallApplyWithParams == Enter("apply_with_params")

\* What the caller has seen of the call that just ended.
Seen ==
  [op |-> cur.op, f |-> cur.f, ps |-> cur.ps, from |-> cur.from, input |-> input,
   outcome |-> pc, out |-> ret, panic |-> panic, calls |-> calls]

ClearFrame ==
  /\ self' = Moved /\ receiver' = Moved
  /\ f' = FnItem("push") /\ p' = <<>> /\ iter' = <<>> /\ param' = <<>>
  /\ borrowed' = FALSE
  /\ calls' = <<>>
  /\ panic' = NoPanic
  /\ input' = <<>>

\* The call returned and the next one is chained on its result.
Chain ==
  /\ pc = "returned"
  /\ Tail(script) # <<>> /\ Head(Tail(script)).from = "prev"
  /\ hist' = Append(hist, Seen)
  /\ script' = Tail(script)
  /\ arg' = ret
  /\ ret' = Moved
  /\ pc' = "ready"
  /\ ClearFrame
  /\ UNCHANGED test

\* The call ended (returned, or panicked and was caught by the test runner);
\* the next expression of the test starts from a freshly built value.
Restart ==
  /\ pc \in {"returned", "panicked"}
  /\ LET rest == IF pc = "panicked" THEN SkipChained(Tail(script)) ELSE Tail(script) IN
       /\ rest # <<>> /\ Head(rest).from = "v0"
       /\ script' = rest
  /\ hist' = Append(hist, Seen)
  /\ arg' = Some(test.v)
  /\ ret' = Moved
  /\ pc' = "ready"
  /\ ClearFrame
  /\ UNCHANGED test

\* The call ended and the test has nothing left to run.
Finish ==
  /\ pc \in {"returned", "panicked"}
  /\ (IF pc = "panicked" THEN SkipChained(Tail(script)) ELSE Tail(script)) = <<>>
  /\ hist' = Append(hist, Seen)
  /\ script' = <<>>
  /\ arg' = Moved
  /\ ret' = Moved
  /\ pc' = "done"
  /\ ClearFrame
  /\ UNCHANGED test

\* ------------------------------------------------------ the combinator
\* let mut receiver = self;
Bind(o, next) ==
  /\ pc = "entry"
  /\ InOp(o)
  /\ receiver' = self
  /\ self' = Moved
  /\ pc' = next
  /\ UNCHANGED <<caller, f, p, iter, param, borrowed, calls, panic, input>>

\* f(&mut receiver, a): the invocation begins; it holds the exclusive borrow.
Invoke(o, a) ==
  /\ pc = "call"
  /\ InOp(o)
  /\ borrowed' = TRUE
  /\ param' = a
  /\ calls' = Append(calls, [p |-> a, before |-> receiver.val, after |-> <<>>,
                            res |-> NoRes, done |-> FALSE, panicked |-> FALSE])
  /\ pc' = "in_f"
  /\ UNCHANGED <<caller, self, receiver, f, iter, panic, input>>

\* receiver
Return(o) ==
  /\ pc = "ret"
  /\ InOp(o)
  /\ ret' = receiver
  /\ receiver' = Moved
  /\ pc' = "returned"
  /\ UNCHANGED <<test, script, hist, arg, self, f, p, iter, param, borrowed, calls, panic, input>>

\* let mut receiver = self.clone(): self stays alive next to receiver.
ApplyBindClone ==
  /\ pc = "entry"
  /\ InOp("apply")
  /\ receiver' = self
  /\ pc' = "call"
  /\ UNCHANGED <<caller, self, f, p, iter, param, borrowed, calls, panic, input>>

\* The statement f(&mut receiver) left out.
ApplySkipInvoke ==
  /\ pc = "call"
  /\ InOp("apply")
  /\ pc' = "ret"
  /\ UNCHANGED <<caller, frame>>

\* f(&mut receiver) in tail position: what f returned is handed back when it
\* is a value.
ApplyReturnResult ==
  /\ pc = "ret"
  /\ InOp("apply")
  /\ ret' = IF calls # <<>> /\ calls[Len(calls)].res.tag = "some"
            THEN Some(calls[Len(calls)].res.val) ELSE receiver
  /\ receiver' = Moved
  /\ pc' = "returned"
  /\ UNCHANGED <<test, script, hist, arg, self, f, p, iter, param, borrowed, calls, panic, input>>

\* f(&mut receiver, P::default()): p is not what f is given.
ParamInvokeDefault == Invoke("apply_with_param", <<"a">>) /\ p' = <<>>

ApplyBind == Bind("apply", "call")
ApplyInvoke == Invoke("apply", f.cap) /\ UNCHANGED p
ApplyReturn == Return("apply")

ParamBind == Bind("apply_with_param", "call")
ParamInvoke == Invoke("apply_with_param", p) /\ p' = <<>>
ParamReturn == Return("apply_with_param")

ParamsBind == Bind("apply_with_params", "for")
\* The vector is indexed before the loop (p[0]): an empty one panics.
ParamsIntoIterStrict ==
  /\ pc = "for"
  /\ InOp("apply_with_params")
  /\ iter' = p
  /\ p' = <<>>
  /\ IF p = <<>> THEN pc' = "unwind" /\ panic' = "index out of bounds"
     ELSE pc' = "loop" /\ panic' = panic
  /\ UNCHANGED <<caller, self, receiver, f, param, borrowed, calls, input>>

\* for param in p: p.into_iter()
ParamsIntoIter ==
  /\ pc = "for"
  /\ InOp("apply_with_params")
  /\ iter' = p
  /\ p' = <<>>
  /\ pc' = "loop"
  /\ UNCHANGED <<caller, self, receiver, f, param, borrowed, calls, panic, input>>

\* p.into_iter().rev(): the elements are taken from the back.
IterNextBack(it) == [item |-> <<it[Len(it)]>>, rest |-> SubSeq(it, 1, Len(it) - 1)]

\* The iterator's next(): the first remaining element, and the rest.
IterNext(it) == [item |-> <<Head(it)>>, rest |-> Tail(it)]

\* for param in p { f(&mut receiver, param); }: the next element is taken and
\* f is invoked on it.
ParamsInvoke ==
  /\ pc = "loop"
  /\ InOp("apply_with_params")
  /\ iter # <<>>
  /\ iter' = IterNext(iter).rest
  /\ borrowed' = TRUE
  /\ param' = IterNext(iter).item
  /\ calls' = Append(calls, [p |-> IterNext(iter).item, before |-> receiver.val, after |-> <<>>,
                            res |-> NoRes, done |-> FALSE, panicked |-> FALSE])
  /\ pc' = "in_f"
  /\ UNCHANGED <<caller, self, receiver, f, p, panic, input>>

\* The loop bound is off by one: the loop may end with one element left.
ParamsLoopEndEarly ==
  /\ pc = "loop"
  /\ InOp("apply_with_params")
  /\ Len(iter) <= 1
  /\ pc' = "ret"
  /\ UNCHANGED <<caller, frame>>

\* The iterator is exhausted: the loop ends.
ParamsLoopEnd ==
  /\ pc = "loop"
  /\ InOp("apply_with_params")
  /\ iter = <<>>
  /\ pc' = "ret"
  /\ UNCHANGED <<caller, frame>>

\* An empty vector short-circuits to a fresh T::default().
ParamsReturnDefault ==
  /\ pc = "ret"
  /\ InOp("apply_with_params")
  /\ ret' = IF calls = <<>> THEN Some(<<>>) ELSE receiver
  /\ receiver' = Moved
  /\ pc' = "returned"
  /\ UNCHANGED <<test, script, hist, arg, self, f, p, iter, param, borrowed, calls, panic, input>>

ParamsReturn == Return("apply_with_params")

\* The invocation in flight, as the callable computes it.
Running == Mut(f.kind, receiver.val, param[1])

\* Where control goes when f returns: the statement after the call.
AfterCall == IF InOp("apply_with_params") THEN "loop" ELSE "ret"

\* f(&mut receiver.clone(), ..): f works on a copy and receiver keeps its value.
MutationReturnsOnCopy ==
  /\ pc = "in_f"
  /\ Running.panic = NoPanic
  /\ borrowed' = FALSE
  /\ param' = <<>>
  /\ calls' = [calls EXCEPT ![Len(calls)] =
                 [@ EXCEPT !.after = Running.val, !.res = Running.res, !.done = TRUE]]
  /\ pc' = AfterCall
  /\ UNCHANGED <<caller, self, receiver, f, p, iter, panic, input>>

\* f returns: its effect is in receiver, the borrow ends, and the statement's
\* trailing `;` drops what f returned.
MutationReturns ==
  /\ pc = "in_f"
  /\ Running.panic = NoPanic
  /\ receiver' = Some(Running.val)
  /\ borrowed' = FALSE
  /\ param' = <<>>
  /\ calls' = [calls EXCEPT ![Len(calls)] =
                 [@ EXCEPT !.after = Running.val, !.res = Running.res, !.done = TRUE]]
  /\ pc' = AfterCall
  /\ UNCHANGED <<caller, self, f, p, iter, panic, input>>

\* The call is wrapped in catch_unwind and the panic swallowed: the combinator
\* carries on with the statement after the call.
MutationPanicsCaught ==
  /\ pc = "in_f"
  /\ Running.panic # NoPanic
  /\ receiver' = Some(Running.val)
  /\ borrowed' = FALSE
  /\ param' = <<>>
  /\ calls' = [calls EXCEPT ![Len(calls)] =
                 [@ EXCEPT !.after = Running.val, !.done = TRUE, !.panicked = TRUE]]
  /\ pc' = AfterCall
  /\ UNCHANGED <<caller, self, f, p, iter, panic, input>>

\* f panics: whatever it did so far stays in receiver, the borrow ends, and
\* the panic starts unwinding the combinator's frame.
MutationPanics ==
  /\ pc = "in_f"
  /\ Running.panic # NoPanic
  /\ receiver' = Some(Running.val)
  /\ borrowed' = FALSE
  /\ param' = <<>>
  /\ calls' = [calls EXCEPT ![Len(calls)] =
                 [@ EXCEPT !.after = Running.val, !.done = TRUE, !.panicked = TRUE]]
  /\ panic' = Running.panic
  /\ pc' = "unwind"
  /\ UNCHANGED <<caller, self, f, p, iter, input>>

\* Unwinding leaves the combinator: its locals (receiver, the rest of the
\* iterator) are dropped and the panic reaches the caller.
Unwind ==
  /\ pc = "unwind"
  /\ receiver' = Moved
  /\ iter' = <<>>
  /\ pc' = "panicked"
  /\ UNCHANGED <<caller, self, f, p, param, borrowed, calls, panic, input>>

Next ==
  \/ PickTest
  \/ CallApply \/ CallApplyWithParam \/ CallApplyWithParams
  \/ Chain \/ Restart \/ Finish
  \/ ApplyBind \/ ApplyInvoke \/ ApplyReturn
  \/ ParamBind \/ ParamInvoke \/ ParamReturn
  \/ ParamsBind \/ ParamsIntoIter \/ ParamsInvoke \/ ParamsLoopEnd \/ ParamsReturn
  \/ MutationReturns \/ MutationPanics \/ Unwind

Spec == Init /\ [][Next]_vars

\* ---------------------------------------------------------------- claims
\* The manual way of the tests: let mut x = v; f(&mut x, p1); f(&mut x, p2); ...; x
RECURSIVE Manual(_, _, _)
Manual(kind, v, ps) ==
  IF ps = <<>> THEN v ELSE Manual(kind, Mut(kind, v, Head(ps)).val, Tail(ps))

Last(s) == s[Len(s)]
LiveCount ==
  Cardinality({i \in 1..4 : <<arg, self, receiver, ret>>[i].live})

\* C1: apply(v, f) with a mutation that returns has invoked f exactly once, on v,
\* by the time it returns, and returns exactly what applying f by hand to a
\* mutable local bound to v leaves there.
C1_ApplyOnce ==
  InOp("apply") =>
    /\ Len(calls) <= 1
    /\ pc = "returned" =>
         /\ Len(calls) = 1
         /\ calls[1].done
         /\ calls[1].before = input
         /\ calls[1].p = cur.f.cap
         /\ ret = Some(Mut(cur.f.kind, input, cur.f.cap[1]).val)

C1_Witness ==
  /\ pc = "returned" /\ InOp("apply")
  /\ ret.val # input

\* C2: apply_with_params(v, f, [p1..pn]) invokes f on p1, p2, ... in that order,
\* the i-th invocation on the value the first i-1 left, and has made exactly n
\* invocations when it returns.
C2_ParamsInOrder ==
  InOp("apply_with_params") =>
    /\ Len(calls) <= Len(cur.ps)
    /\ \A i \in 1..Len(calls) :
         /\ calls[i].p = <<cur.ps[i]>>
         /\ calls[i].before = Manual(cur.f.kind, input, SubSeq(cur.ps, 1, i - 1))
    /\ pc = "returned" =>
         /\ Len(calls) = Len(cur.ps)
         /\ \A i \in 1..Len(calls) : calls[i].done /\ ~calls[i].panicked
         /\ ret = Some(Manual(cur.f.kind, input, cur.ps))

C2_Witness ==
  /\ pc = "returned" /\ InOp("apply_with_params")
  /\ Len(calls) = 2
  /\ cur.ps[1] # cur.ps[2]

\* C3: when the invocation for pi panics in apply_with_params, it is the last
\* invocation made, the panic is on its way to the caller with nothing returned,
\* and receiver holds what invocations 1..i, the failed one included, left.
C3_FailFast ==
  InOp("apply_with_params") =>
    /\ \A j \in 1..Len(calls) :
         calls[j].panicked => j = Len(calls) /\ pc \in {"unwind", "panicked"}
    /\ pc \in {"unwind", "panicked"} =>
         /\ calls # <<>>
         /\ LET i == Len(calls)
                m == Mut(cur.f.kind, Manual(cur.f.kind, input, SubSeq(cur.ps, 1, i - 1)),
                         cur.ps[i])
            IN /\ Last(calls).panicked
               /\ Last(calls).p = <<cur.ps[i]>>
               /\ Last(calls).after = m.val
               /\ panic = m.panic
               /\ pc = "unwind" => receiver = Some(m.val)
         /\ ret = Moved

C3_Witness ==
  /\ pc = "unwind" /\ InOp("apply_with_params")
  /\ Len(calls) < Len(cur.ps)
  /\ receiver.val # input

\* C4: a call of apply chained on another's result starts from what the first
\* mutation left and returns what the two mutations, applied in that order by
\* hand, leave; where the two orders differ by hand, the two chains differ.
C4_ChainOrder ==
  /\ \A i \in 1..(Len(hist) - 1) :
       (hist[i].op = "apply" /\ hist[i + 1].op = "apply" /\ hist[i + 1].from = "prev") =>
         LET first == Mut(hist[i].f.kind, hist[i].input, hist[i].f.cap[1]).val
             both == Mut(hist[i + 1].f.kind, first, hist[i + 1].f.cap[1]).val
         IN /\ hist[i].out = Some(first)
            /\ hist[i + 1].input = first
            /\ hist[i + 1].calls[1].before = first
            /\ hist[i + 1].outcome = "returned" => hist[i + 1].out = Some(both)
  /\ (test.name = "twice" /\ Len(hist) = 4
      /\ hist[2].outcome = "returned" /\ hist[4].outcome = "returned") =>
       LET fg == Manual(test.g, Manual(test.f, test.v, <<test.ps[1]>>), <<test.ps[2]>>)
           gf == Manual(test.f, Manual(test.g, test.v, <<test.ps[2]>>), <<test.ps[1]>>)
       IN fg # gf => hist[2].out # hist[4].out

C4_Witness ==
  /\ test.name = "twice" /\ Len(hist) = 4
  /\ hist[2].outcome = "returned" /\ hist[4].outcome = "returned"
  /\ hist[2].out # hist[4].out

\* C5: apply_with_param(v, f, p) and apply(v, |it| f(it, p)) make the same single
\* invocation, with p, and end the same way: the same value returned, or the
\* same panic.
C5_ParamAsClosure ==
  (test.name = "param_vs_apply" /\ Len(hist) = 2) =>
    /\ hist[1].op = "apply_with_param" /\ hist[2].op = "apply"
    /\ hist[1].input = hist[2].input
    /\ Len(hist[1].calls) = 1
    /\ hist[1].calls[1].p = hist[1].ps
    /\ hist[1].calls = hist[2].calls
    /\ hist[1].outcome = hist[2].outcome
    /\ hist[1].out = hist[2].out
    /\ hist[1].panic = hist[2].panic

C5_Witness ==
  /\ test.name = "param_vs_apply" /\ Len(hist) = 2
  /\ hist[1].outcome = "returned"
  /\ hist[1].out.val # hist[1].input
  /\ hist[1].ps # <<"a">>

\* C6: apply_with_params(v, f, [p1..pn]) ends as the chain of apply_with_param
\* calls with p1, then p2, ..., then pn does: the same value returned (v itself
\* for n = 0), or the same panic.
C6_ParamsAsChain ==
  (test.name = "params_vs_chain" /\ pc = "done") =>
    /\ hist[1].op = "apply_with_params"
    /\ hist[1].ps = test.ps
    /\ IF test.ps = <<>>
       THEN Len(hist) = 1 /\ hist[1].out = Some(test.v)
       ELSE /\ \A i \in 2..Len(hist) :
                 /\ hist[i].op = "apply_with_param"
                 /\ hist[i].ps = <<test.ps[i - 1]>>
            /\ hist[1].outcome = Last(hist).outcome
            /\ hist[1].out = Last(hist).out
            /\ hist[1].panic = Last(hist).panic
            /\ hist[1].outcome = "returned" => Len(hist) = Len(test.ps) + 1

C6_Witness ==
  /\ test.name = "params_vs_chain" /\ pc = "done"
  /\ Len(test.ps) = 2 /\ test.ps[1] # test.ps[2]
  /\ Len(hist) = 3
  /\ hist[1].outcome = "returned"

\* C7: apply_with_params with an empty vector never invokes f, never fails, and
\* returns the value it was given, whatever f is.
C7_EmptyIsNoOp ==
  (InOp("apply_with_params") /\ cur.ps = <<>>) =>
    /\ calls = <<>>
    /\ pc \notin {"in_f", "unwind", "panicked"}
    /\ pc = "returned" => ret = Some(input)

C7_Witness ==
  /\ pc = "returned" /\ InOp("apply_with_params")
  /\ cur.ps = <<>>
  /\ cur.f.kind = "boom"
  /\ input # <<>>

\* C8: what a call returns is receiver as the last invocation left it, never
\* what the mutation returned; a mutation returning () and one returning a
\* value, with the same effect, give equal results in all three operations.
C8_ResultDiscarded ==
  /\ pc = "returned" =>
       /\ ret = Some(IF calls = <<>> THEN input ELSE Last(calls).after)
       /\ \A i \in 1..Len(calls) : calls[i].res.tag = "some" => ret.val # calls[i].res.val
  /\ (test.name = "ret_discard" /\ Len(hist) = 2) =>
       /\ hist[1].op = hist[2].op
       /\ hist[1].outcome = "returned" /\ hist[2].outcome = "returned"
       /\ hist[1].out = hist[2].out
       /\ \A i \in 1..Len(hist[2].calls) :
            hist[1].calls[i].res.tag = "unit" /\ hist[2].calls[i].res.tag = "some"

C8_Witness ==
  /\ test.name = "ret_discard" /\ Len(hist) = 2
  /\ hist[2].op = "apply"
  /\ hist[2].calls[1].res = Something(test.v)
  /\ hist[2].out.val # test.v

\* C9: a call panics exactly when an invocation of the mutation panics, the
\* caller then sees that invocation's payload and no value; a mutation that
\* returns (whatever it returns) never makes the call fail.
C9_Transparent ==
  /\ \A j \in 1..Len(calls) : calls[j].panicked => pc \in {"unwind", "panicked"}
  /\ pc \in {"unwind", "panicked"} =>
       /\ calls # <<>>
       /\ Last(calls).panicked
       /\ panic # NoPanic
       /\ panic = Mut(cur.f.kind, Last(calls).before, Last(calls).p[1]).panic
       /\ ret = Moved
  /\ pc = "returned" => panic = NoPanic /\ ret.live
  /\ \A i \in 1..Len(hist) :
       /\ hist[i].outcome = "panicked" <=> \E j \in 1..Len(hist[i].calls) : hist[i].calls[j].panicked
       /\ hist[i].outcome = "panicked" <=> hist[i].panic # NoPanic
       /\ hist[i].outcome = "panicked" <=> ~hist[i].out.live
       /\ hist[i].outcome = "panicked" =>
            hist[i].panic = Mut(hist[i].f.kind, Last(hist[i].calls).before,
                                Last(hist[i].calls).p[1]).panic

C9_Witness ==
  /\ pc = "panicked" /\ InOp("apply_with_param")
  /\ panic = "rejected"

\* C10 as stated: at every instant of every call exactly one place owns the
\* value, caller before and after, combinator during, and the value that went
\* in comes out.
C10_AlwaysOneOwner ==
  pc \notin {"idle", "done"} =>
    /\ LiveCount = 1
    /\ borrowed <=> pc = "in_f"
    /\ pc \in {"returned", "panicked"} => ret.live

\* C10, amended: while a call runs exactly one place owns the value (the caller's
\* argument, then self, then receiver, then the caller's result), the borrow is
\* out exactly while an invocation runs, and the value only changes by what the
\* invocations do to it; a call that returns hands that value back, and a call
\* whose mutation panics drops it while unwinding and hands nothing back.
C10_OneOwner ==
  /\ borrowed <=> pc = "in_f"
  /\ pc \notin {"idle", "done", "panicked"} => LiveCount = 1
  /\ pc = "ready" => arg.live
  /\ pc = "entry" => self = Some(input)
  /\ pc \in {"call", "for", "loop", "ret"} =>
       receiver = Some(IF calls = <<>> THEN input ELSE Last(calls).after)
  /\ pc = "in_f" => receiver = Some(Last(calls).before)
  /\ pc = "unwind" => receiver = Some(Last(calls).after)
  /\ pc = "returned" => ret = Some(IF calls = <<>> THEN input ELSE Last(calls).after)
  /\ pc = "panicked" => LiveCount = 0

C10_Witness ==
  /\ pc = "in_f" /\ InOp("apply_with_params")
  /\ borrowed
  /\ Len(calls) = 2
  /\ receiver.val # input

====
